---- MODULE Spec2Model ----
(***************************************************************************)
(* A model of psgnets/models/decoding.py: the Decoder wrapper and the      *)
(* three decoding heads (spatial_attribute_decoder,                        *)
(* future_attribute_decoder, shape_decoder) over a shared attribute        *)
(* layout (DimensionDict).                                                 *)
(*                                                                         *)
(* Strings are sequences of atoms, so that Python's substring test         *)
(* ("unary_attr" in "unary_attrs_remainder") and string concatenation      *)
(* (name + '/' + key) are computed, not assumed.                           *)
(* Real numbers are exact rationals <<num, den>> (den > 0); attribute      *)
(* values are counted in tenths (10 stands for 1.0).                       *)
(***************************************************************************)
EXTENDS Integers, Sequences, FiniteSets, TLC

VARIABLES Dims, call, out, prev

vars == <<Dims, call, out, prev>>

(***************************************************************************)
(* Bounds of the model.                                                    *)
(***************************************************************************)
MaxSide == 2          \* images are H x W with 2 <= H, W <= MaxSide
MaxPts == 5           \* num_sample_points ranges over 1..MaxPts
MaxT == 3             \* sequence lengths T range over 1..MaxT
MaxNameLen == 3       \* decoder names have 1..MaxNameLen characters

(***************************************************************************)
(* Small helpers.                                                          *)
(***************************************************************************)
Min(a, b) == IF a <= b THEN a ELSE b

Max(a, b) == IF a >= b THEN a ELSE b

RECURSIVE SumSeq(_)
SumSeq(s) == IF s = <<>> THEN 0 ELSE s[1] + SumSeq(Tail(s))

RECURSIVE Pow2(_)
Pow2(n) == IF n <= 0 THEN 1 ELSE 2 * Pow2(n - 1)

\* Python: p in k, for strings.
contains(k, p) == \E i \in 0..(Len(k) - Len(p)) : SubSeq(k, i + 1, i + Len(p)) = p

\* Python: list[pos] for a list of length n; the 1-based index, or 0 for an IndexError.
py_index(n, pos) ==
    IF pos >= 0 THEN (IF pos < n THEN pos + 1 ELSE 0)
    ELSE (IF n + pos >= 0 THEN n + pos + 1 ELSE 0)

(***************************************************************************)
(* The attribute layout (psgnets.ops.dimensions.DimensionDict): an ordered *)
(* mapping name -> [start, end) with a post-processing function, over a    *)
(* vector of width ndims.  A layout is [ndims, items], items a sequence of *)
(* [key, s, e, f].                                                         *)
(***************************************************************************)
keys(d) == [i \in 1..Len(d.items) |-> d.items[i].key]

has_key(d, k) == \E i \in 1..Len(d.items) : d.items[i].key = k

getitem(d, k) == d.items[CHOOSE i \in 1..Len(d.items) : d.items[i].key = k]

overlaps(s1, e1, s2, e2) == s1 < e1 /\ s2 < e2 /\ s1 < e2 /\ s2 < e1

sort_insert(sorted, x) ==
    LET later == {i \in 1..Len(sorted) : sorted[i].s > x.s}
    IN  IF later = {} THEN Append(sorted, x)
        ELSE LET j == CHOOSE i \in later : \A i2 \in later : i <= i2
             IN  SubSeq(sorted, 1, j - 1) \o <<x>> \o SubSeq(sorted, j, Len(sorted))

RECURSIVE sort_items(_)
sort_items(items) ==
    IF items = <<>> THEN <<>>
    ELSE sort_insert(sort_items(SubSeq(items, 1, Len(items) - 1)), items[Len(items)])

\* Dims.sort(): orders the entries by start, in place.
sort(d) == [d EXCEPT !.items = sort_items(d.items)]

\* Dims[k] = [s, e, f].  The layout's contract on insertion: an existing name is an
\* error, and so is a range that leaves [0, ndims) or overlaps a range already held.
setitem(d, k, s, e, f) ==
    IF \/ has_key(d, k)
       \/ ~(0 <= s /\ s <= e /\ e <= d.ndims)
       \/ \E i \in 1..Len(d.items) : overlaps(s, e, d.items[i].s, d.items[i].e)
    THEN [ok |-> FALSE, d |-> d]
    ELSE [ok |-> TRUE, d |-> [d EXCEPT !.items = Append(@, [key |-> k, s |-> s, e |-> e, f |-> f])]]

\* Dims.parse_dims(n, start=..., multiplier=..., allow_expansion=...)
parse_dims(d, n, start, multiplier, allow_expansion) ==
    [ok |-> allow_expansion \/ start + n * multiplier <= d.ndims,
     s |-> start, e |-> start + n * multiplier]

\* Dims.insert_from(new, position=..., expand=False): the entries of new, shifted by
\* position, take the place of what the block [position, position + new.ndims)
\* held; a name already in the layout, or an entry that straddles the block, is an
\* error.
insert_from(d, new, position) ==
    LET lo == position
        hi == position + new.ndims
        inside(x) == lo <= x.s /\ x.e <= hi
        kept == SelectSeq(d.items, LAMBDA x : ~inside(x))
        shifted == [i \in 1..Len(new.items) |->
                      [new.items[i] EXCEPT !.s = @ + position, !.e = @ + position]]
    IN  IF \/ hi > d.ndims
           \/ \E i \in 1..Len(shifted) : has_key(d, shifted[i].key)
           \/ \E i \in 1..Len(kept) : overlaps(kept[i].s, kept[i].e, lo, hi)
        THEN [ok |-> FALSE, d |-> d]
        ELSE [ok |-> TRUE, d |-> [d EXCEPT !.items = kept \o shifted]]

\* The keys that hold pattern p, in layout order.
keys_with(d, p) == SelectSeq(keys(d), LAMBDA k : contains(k, p))

\* Dims.get_tensor_from_attrs(vector, key): the slice of each node's vector.
get_tensor_from_attrs(d, vector, k) ==
    LET x == getitem(d, k)
    IN  [n \in DOMAIN vector |-> SubSeq(vector[n], x.s + 1, x.e)]

\* Dims.get_attr_dims(vector, name, [[a, b]], position=...): the key at position among
\* those holding name, and columns [a, b) of its slice; key <<>> when it fails.
get_attr_dims(d, vector, name, sub, position) ==
    LET ks == keys_with(d, name)
        i == py_index(Len(ks), position)
    IN  IF i = 0 THEN [key |-> <<>>, t |-> <<>>]
        ELSE LET x == getitem(d, ks[i])
             IN  IF ~(0 <= sub[1] /\ sub[1] < sub[2] /\ x.s + sub[2] <= x.e)
                 THEN [key |-> <<>>, t |-> <<>>]
                 ELSE [key |-> ks[i],
                       t |-> [n \in DOMAIN vector |->
                                SubSeq(vector[n], x.s + sub[1] + 1, x.s + sub[2])]]

(***************************************************************************)
(* Post-processing functions of the predicted attributes.  A decoded value *)
(* is a vector of channels, each a numerator over the common denominator   *)
(* den, counted in tenths.                                                 *)
(***************************************************************************)
RECURSIVE isqrt_from(_, _)
isqrt_from(x, r) == IF (r + 1) * (r + 1) > x THEN r ELSE isqrt_from(x, r + 1)

isqrt(x) == isqrt_from(x, 0)

\* lambda z: tf.minimum(z, -0.1)
min_neg_tenth(v, den) == [c \in DOMAIN v |-> IF v[c] < -den THEN v[c] ELSE -den]

\* lambda n: tf.nn.l2_normalize(n, axis=-1): n / |n|, and 0 for the zero vector.
l2_normalize(v, den) ==
    LET norm == isqrt(SumSeq([c \in DOMAIN v |-> v[c] * v[c]]))
    IN  [c \in DOMAIN v |-> IF norm = 0 THEN 0 ELSE (v[c] * 10 * den) \div norm]

postproc(f, v, den) ==
    IF f = "min_neg_tenth" THEN min_neg_tenth(v, den)
    ELSE IF f = "l2_normalize" THEN l2_normalize(v, den)
    ELSE v

\* Entries of DEFAULT_PRED_DIMS: attr, number of channels, post-processing.
pred_depths_dims == [attr |-> <<"pred_depths">>, ndims |-> 1, f |-> "min_neg_tenth"]

pred_normals_dims == [attr |-> <<"pred_normals">>, ndims |-> 3, f |-> "l2_normalize"]

(***************************************************************************)
(* The result of a head that stops at a failed precondition or a layout    *)
(* conflict: the layout as the head left it, and no outputs.               *)
(***************************************************************************)
failure(why, d, attempted) ==
    [status |-> why, Dims |-> d, attempted |-> attempted, out |-> [none |-> TRUE]]

(***************************************************************************)
(* spatial_attribute_decoder, for one batch entry and one time step.       *)
(* nodes: [vector |-> [n \in 0..N-1 |-> row]]; segment_ids: [0..H*W-1 -> id]; *)
(* cfg: latent_vector_key, key_pos, hw_attr, num_sample_points, train,     *)
(* attribute_dims_to_decode, method; rnd: the draw of the random sampler.  *)
(***************************************************************************)
\* rendering.sample_image_inds(out_shape=[B,T,P], im_size=[H,W], train=train):
\* P pixel locations <<h, w>>, in raster order from pixel 0 in evaluation and from
\* a random pixel in training.
sample_image_inds(P, H, W, train, rnd) ==
    [i \in 1..P |->
        LET p == IF train THEN (i - 1 + rnd) % (H * W) ELSE (i - 1) % (H * W)
        IN  << p \div W, p % W >>]

\* utils.preproc_segment_ids(segment_ids, Nmax=N, return_valid_segments=True)
preproc_segment_ids(segment_ids, N) ==
    [ids |-> [p \in DOMAIN segment_ids |->
                IF segment_ids[p] \in 0..(N - 1) THEN segment_ids[p] ELSE 0],
     valid |-> [p \in DOMAIN segment_ids |->
                IF segment_ids[p] \in 0..(N - 1) THEN 1 ELSE 0]]

\* n_coeffs_per_dim = {'constant':0, 'linear':2, 'quadratic':5}[method]
n_coeffs_per_dim(method) ==
    IF method = "constant" THEN 0 ELSE IF method = "linear" THEN 2 ELSE 5

\* The loop over attribute_dims_to_decode that fills predDims.
RECURSIVE assign_pred_dims(_, _, _, _, _)
assign_pred_dims(predDims, attrs, i, dims_used, multiplier) ==
    IF i > Len(attrs) THEN [ok |-> TRUE, d |-> predDims, dims_used |-> dims_used]
    ELSE LET newdims == parse_dims(predDims, attrs[i].ndims, dims_used, multiplier, FALSE)
             r == setitem(predDims, attrs[i].attr, newdims.s, newdims.e, attrs[i].f)
         IN  IF ~newdims.ok \/ ~r.ok
             THEN [ok |-> FALSE, d |-> predDims, dims_used |-> dims_used]
             ELSE assign_pred_dims(r.d, attrs, i + 1,
                                   dims_used + (newdims.e - newdims.s), multiplier)

\* deltas = [1.0] + [dH, dW] + [dH*dH, dH*dW, dW*dW], as numerators over
\* (H-1)^2 (W-1)^2, where dH = dHn / (H-1) and dW = dWn / (W-1).
deltas(method, dHn, dWn, sH, sW) ==
    << sH * sH * sW * sW >>
    \o (IF method # "constant" THEN << dHn * sH * sW * sW, dWn * sW * sH * sH >> ELSE << >>)
    \o (IF method = "quadratic"
        THEN << dHn * dHn * sW * sW, dHn * dWn * sH * sW, dWn * dWn * sH * sH >>
        ELSE << >>)

\* The insertion of predDims without the Dims.sort() that follows it.
register_pred_dims_unsorted(d, predDims, position) == insert_from(d, predDims, position)

\* Dims.insert_from(predDims, position=Dims[lat_key][0], expand=False); Dims.sort()
register_pred_dims(d, predDims, position) ==
    LET inserted == insert_from(d, predDims, position)
    IN  [ok |-> inserted.ok, d |-> sort(inserted.d)]

\* The sample budget taken as it is, not clamped to the number of pixels.
num_samples_unclamped(num_sample_points, H, W) == num_sample_points

\* P = np.minimum(num_sample_points, H*W)
num_samples(num_sample_points, H, W) == Min(num_sample_points, H * W)

\* The rendering without the attribute's post-processing function.
render_attr_no_postproc(predDims, latent, attr, nblocks, ds) ==
    LET x == getitem(predDims, attr)
        attr_vec == SubSeq(latent, x.s + 1, x.e)
        width == Len(attr_vec) \div nblocks
    IN  [c \in 1..width |->
            SumSeq([i \in 1..nblocks |-> attr_vec[(i - 1) * width + c] * ds[i]])]

\* The rendering of one attribute at one sampled pixel: the slice of the latent
\* vector, split into nblocks = 1 + n_coeffs blocks of ndims channels, block i
\* times deltas[i], summed, then post-processed by the attribute's function.
render_attr(predDims, latent, attr, nblocks, ds) ==
    LET x == getitem(predDims, attr)
        attr_vec == SubSeq(latent, x.s + 1, x.e)
        width == Len(attr_vec) \div nblocks
        summed == [c \in 1..width |->
                     SumSeq([i \in 1..nblocks |-> attr_vec[(i - 1) * width + c] * ds[i]])]
    IN  postproc(x.f, summed, ds[1])

spatial_attribute_decoder(nodes, segment_ids, H, W, dimension_dict, cfg, rnd) ==
    LET D1 == sort(dimension_dict)
        hw_keys == keys_with(D1, cfg.hw_attr)
        lat_keys == keys_with(D1, cfg.latent_vector_key)
        val_keys == keys_with(D1, <<"valid">>)
        li == py_index(Len(lat_keys), cfg.key_pos)
    IN
    IF hw_keys = <<>> \/ li = 0 \/ val_keys = <<>> THEN failure("IndexError", D1, {})
    ELSE
    LET hw_key == hw_keys[Len(hw_keys)]
        lat_key == lat_keys[li]
        val_key == val_keys[Len(val_keys)]
        node_hws == get_tensor_from_attrs(D1, nodes.vector, hw_key)
        latent_vec == get_tensor_from_attrs(D1, nodes.vector, lat_key)
        valid_nodes == get_tensor_from_attrs(D1, nodes.vector, val_key)
        N == Cardinality(DOMAIN nodes.vector)
        P == num_samples(cfg.num_sample_points, H, W)
        spatial_inds == sample_image_inds(P, H, W, cfg.train, rnd)
        seg == preproc_segment_ids(segment_ids, N)
        pix(i) == spatial_inds[i][1] * W + spatial_inds[i][2]
        segments_to_decode == [i \in 1..P |-> seg.ids[pix(i)]]
        valid_segments_to_decode == [i \in 1..P |-> seg.valid[pix(i)]]
        sH == H - 1
        sW == W - 1
        dHn(i) == 2 * spatial_inds[i][1] - sH - node_hws[segments_to_decode[i]][1] * sH
        dWn(i) == 2 * spatial_inds[i][2] - sW - node_hws[segments_to_decode[i]][2] * sW
        valid_vectors_to_decode ==
            [i \in 1..P |-> valid_nodes[segments_to_decode[i]][1] * valid_segments_to_decode[i]]
        latent_vectors_to_decode ==
            [i \in 1..P |->
                [j \in 1..Len(latent_vec[segments_to_decode[i]]) |->
                    latent_vec[segments_to_decode[i]][j] * valid_vectors_to_decode[i]]]
        D == getitem(D1, lat_key).e - getitem(D1, lat_key).s
        attrs == cfg.attribute_dims_to_decode
        assigned == assign_pred_dims([ndims |-> D, items |-> <<>>], attrs, 1, 0,
                                     1 + n_coeffs_per_dim(cfg.method))
    IN
    IF Len(node_hws[0]) # 2 \/ Len(valid_nodes[0]) # 1 THEN failure("ShapeError", D1, {})
    ELSE IF ~assigned.ok THEN failure("parse_dims", D1, {})
    ELSE
    LET rem == setitem(assigned.d, lat_key \o <<"_remainder">>,
                       assigned.dims_used, assigned.d.ndims, "identity")
        predDims == rem.d
        attempted == {predDims.items[i].key : i \in 1..Len(predDims.items)}
        inserted == register_pred_dims(D1, predDims, getitem(D1, lat_key).s)
    IN
    IF ~rem.ok \/ ~inserted.ok THEN failure("LayoutConflict", D1, attempted)
    ELSE
    [status |-> "ok",
     Dims |-> inserted.d,
     attempted |-> attempted,
     out |-> [sampled_hw_inds |-> spatial_inds,
              sampled_pred_attrs |->
                  [a \in 1..Len(attrs) |->
                      [i \in 1..P |->
                          render_attr(predDims, latent_vectors_to_decode[i], attrs[a].attr,
                                      1 + n_coeffs_per_dim(cfg.method),
                                      deltas(cfg.method, dHn(i), dWn(i), sH, sW))]],
              sampled_valid_attrs |-> valid_vectors_to_decode,
              den |-> sH * sH * sW * sW,
              \* what the values were decoded from, kept to state the claims
              owner |-> segments_to_decode,
              offsets |-> [i \in 1..P |-> << dHn(i), dWn(i) >>],
              latent_vec |-> latent_vec,
              lat_key |-> lat_key,
              predDims |-> predDims]]

(***************************************************************************)
(* future_attribute_decoder, for one batch entry.  nodes.vector and        *)
(* segment_ids are indexed by the time step 1..T.  cfg: flows_dims,        *)
(* key_pos, back_flows_dims (<<>> for None), depths_dims,                  *)
(* attribute_dims_to_decode.  A dims pair is << name, << a, b >> >>.       *)
(* Flow fields are kept as numerators over 2, so that 0.5 * x is exact.    *)
(***************************************************************************)
\* rendering.render_nodes_with_segment_ids(values, segment_ids): every pixel gets
\* the value of the node that owns it.
render_nodes_with_segment_ids(values, segment_ids) ==
    [t \in DOMAIN segment_ids |->
        [p \in DOMAIN segment_ids[t] |-> values[t][segment_ids[t][p]]]]

\* Python slicing x[:, a:b] on the time axis, a and b counted from 0, a negative
\* one counted from the end; x[:, a:] is py_slice(x, a, Len(x)).
py_slice(x, a, b) ==
    LET n == Len(x)
        lo == IF a < 0 THEN Max(n + a, 0) ELSE Min(a, n)
        hi == IF b < 0 THEN Max(n + b, 0) ELSE Min(b, n)
    IN  SubSeq(x, lo + 1, hi)

scale_field(k, f) == [p \in DOMAIN f |-> [c \in DOMAIN f[p] |-> k * f[p][c]]]

diff_field(f, g) == [p \in DOMAIN f |-> [c \in DOMAIN f[p] |-> f[p][c] - g[p][c]]]

sum_field(f, g) == [p \in DOMAIN f |-> [c \in DOMAIN f[p] |-> f[p][c] + g[p][c]]]

\* The combination with the interior steps as 0.5 * (fwd + bck).
combine_flows_sum(fwd_flows, bck_flows) ==
    LET first == py_slice(bck_flows, 0, 1)
        mid_f == py_slice(fwd_flows, 1, -1)
        mid_b == py_slice(bck_flows, 1, -1)
        last == py_slice(fwd_flows, -1, Len(fwd_flows))
    IN  [t \in 1..Len(first) |-> scale_field(-2, first[t])]
        \o [t \in 1..Len(mid_f) |-> sum_field(mid_f[t], mid_b[t])]
        \o [t \in 1..Len(last) |-> scale_field(2, last[t])]

\* flows = tf.concat([-bck[:,0:1], 0.5*(fwd[:,1:-1] - bck[:,1:-1]), fwd[:,-1:]], axis=1),
\* each entry a field of numerators over 2.
combine_flows(fwd_flows, bck_flows) ==
    LET first == py_slice(bck_flows, 0, 1)
        mid_f == py_slice(fwd_flows, 1, -1)
        mid_b == py_slice(bck_flows, 1, -1)
        last == py_slice(fwd_flows, -1, Len(fwd_flows))
    IN  [t \in 1..Len(first) |-> scale_field(-2, first[t])]
        \o [t \in 1..Len(mid_f) |-> diff_field(mid_f[t], mid_b[t])]
        \o [t \in 1..Len(last) |-> scale_field(2, last[t])]

\* The attributes of attribute_dims_to_decode that the layout cannot supply.
missing_attrs(d, vector, attrs) ==
    {a \in DOMAIN attrs : get_attr_dims(d, vector, attrs[a].attr, attrs[a].ds, -1).key = <<>>}

\* The registration of 'pred_depths' that first drops the entry of that name.
register_pred_depths_replacing(d, depths_dims) ==
    LET ddims == getitem(d, depths_dims[1])
        others == [d EXCEPT !.items = SelectSeq(@, LAMBDA x : x.key # <<"pred_depths">>)]
    IN  setitem(others, <<"pred_depths">>, ddims.s + depths_dims[2][1],
                ddims.s + depths_dims[2][2], "identity")

\* ddims = Dims[depths_dims[0]]
\* Dims['pred_depths'] = [ddims[0] + depths_dims[1][0][0], ddims[0] + depths_dims[1][0][1]]
register_pred_depths(d, depths_dims) ==
    LET ddims == getitem(d, depths_dims[1])
    IN  setitem(d, <<"pred_depths">>, ddims.s + depths_dims[2][1],
                ddims.s + depths_dims[2][2], "identity")

NoLocals == [flows |-> <<>>, fwd_flows |-> <<>>, bck_flows |-> <<>>]

\* locals: the fields the head had built when it stopped.
future_failure(why, d, attempted, locals) ==
    [status |-> why, Dims |-> d, attempted |-> attempted, locals |-> locals,
     out |-> [none |-> TRUE]]

future_attribute_decoder(nodes, segment_ids, dimension_dict, cfg) ==
    LET D1 == sort(dimension_dict)
        T == Len(nodes.vector)
        N == Cardinality(DOMAIN nodes.vector[1])
        valid_keys == keys_with(D1, <<"valid">>)
        flows_t == [t \in 1..T |->
                      get_attr_dims(D1, nodes.vector[t], cfg.flows_dims[1], cfg.flows_dims[2],
                                    cfg.key_pos)]
        back_t == [t \in 1..T |->
                      get_attr_dims(D1, nodes.vector[t], cfg.back_flows_dims[1],
                                    cfg.back_flows_dims[2], -1)]
    IN
    IF valid_keys = <<>> THEN future_failure("IndexError", D1, {}, NoLocals)
    ELSE IF D1.ndims # Len(nodes.vector[1][0]) THEN future_failure("AssertionError", D1, {}, NoLocals)
    ELSE IF flows_t[1].key = <<>> THEN future_failure("IndexError", D1, {}, NoLocals)
    ELSE IF cfg.back_flows_dims # <<>> /\ back_t[1].key = <<>>
    THEN future_failure("IndexError", D1, {}, NoLocals)
    ELSE
    LET nodes_flows == [t \in 1..T |-> flows_t[t].t]
        nodes_back_flows ==
            IF cfg.back_flows_dims # <<>> THEN [t \in 1..T |-> back_t[t].t]
            ELSE [t \in 1..T |->
                    [n \in DOMAIN nodes_flows[t] |->
                        [c \in DOMAIN nodes_flows[t][n] |-> -1 * nodes_flows[t][n][c]]]]
        seg == [t \in 1..T |-> preproc_segment_ids(segment_ids[t], N).ids]
        fwd_flows == render_nodes_with_segment_ids(nodes_flows, seg)
        bck_flows == render_nodes_with_segment_ids(nodes_back_flows, seg)
        flows == combine_flows(fwd_flows, bck_flows)
        locals == [flows |-> flows, fwd_flows |-> fwd_flows, bck_flows |-> bck_flows]
        depths == get_attr_dims(D1, nodes.vector[1], cfg.depths_dims[1], cfg.depths_dims[2], -1)
    IN
    IF cfg.back_flows_dims # <<>>
       /\ Len(nodes_back_flows[1][0]) # Len(nodes_flows[1][0])
    THEN future_failure("AssertionError", D1, {}, NoLocals)
    ELSE IF depths.key = <<>> THEN future_failure("IndexError", D1, {}, locals)
    ELSE IF ~has_key(D1, cfg.depths_dims[1]) THEN future_failure("KeyError", D1, {}, locals)
    ELSE
    LET set == register_pred_depths(D1, cfg.depths_dims)
        attrs == cfg.attribute_dims_to_decode
    IN
    IF ~set.ok THEN future_failure("LayoutConflict", D1, {<<"pred_depths">>}, locals)
    ELSE IF cfg.depths_dims[2][2] - cfg.depths_dims[2][1] # 1
    THEN future_failure("AssertionError", set.d, {<<"pred_depths">>}, locals)
    ELSE IF missing_attrs(set.d, nodes.vector[1], attrs) # {}
    THEN future_failure("IndexError", set.d, {<<"pred_depths">>}, locals)
    ELSE
    [status |-> "ok",
     Dims |-> set.d,
     attempted |-> {<<"pred_depths">>},
     locals |-> locals,
     \* the keys and the fields the rendered maps are computed from
     out |-> [flows |-> flows,
              flows_key |-> flows_t[1].key,
              depths_key |-> depths.key,
              nodes_depths |-> [t \in 1..T |->
                  get_attr_dims(D1, nodes.vector[t], cfg.depths_dims[1],
                                cfg.depths_dims[2], -1).t],
              attr_keys |-> [a \in DOMAIN attrs |->
                  get_attr_dims(set.d, nodes.vector[1], attrs[a].attr, attrs[a].ds, -1).key]]]

(***************************************************************************)
(* shape_decoder, for one batch entry, one time step and one pixel.        *)
(* cfg: num_constraints, train, shape_dims, shape_key_pos, shape_mlp       *)
(* (shape_mlp_kwargs is not None), depths_dims, depths_key_pos, zero_max,  *)
(* valid_mask, hw_attr, attribute_dims_to_decode, beta.                    *)
(* field[n] is the occupancy that shape_coding.build_shape_from_codes      *)
(* gives node n at the pixel.                                              *)
(***************************************************************************)
MaskLogit == -100

ExpBits == 8

\* rendering.resolve_depth_order(index_masks, node_depths, valid_nodes,
\* softmax=False, valid_mask=...): the logit of a node is its depth where it
\* claims the pixel, and invalid nodes are masked out when valid_mask is set.
resolve_depth_order(index_masks, node_depths, valid_nodes, valid_mask) ==
    [n \in DOMAIN index_masks |->
        IF valid_mask /\ valid_nodes[n] = 0 THEN MaskLogit
        ELSE index_masks[n] * node_depths[n]]

seq_max(x) == CHOOSE m \in {x[n] : n \in DOMAIN x} : \A n \in DOMAIN x : x[n] <= m

\* exp(x) for x <= 0 in fixed point, as 2^x in units of 2^-ExpBits; it underflows
\* to 0 below -ExpBits.
exp_fixed(x) == IF x < -ExpBits THEN 0 ELSE Pow2(ExpBits + x)

\* tf.nn.softmax(logits, axis=-1): exp(x - max x) / sum exp(x - max x); the
\* weights [num, den] of the nodes.
softmax(logits) ==
    LET m == seq_max(logits)
        w == [n \in DOMAIN logits |-> exp_fixed(logits[n] - m)]
    IN  [num |-> w, den |-> SumSeq([i \in 1..Cardinality(DOMAIN w) |-> w[i - 1]])]

\* tf.argmax(x, axis=-1): the first index of the largest entry.
argmax(x) == CHOOSE n \in DOMAIN x :
                 /\ \A k \in DOMAIN x : x[k] <= x[n]
                 /\ \A k \in DOMAIN x : x[k] = x[n] => n <= k

\* rendering.render_attrs_from_segment_weights(weights, attr, ds): the sum over the
\* nodes of weight times attribute, as a numerator over weights.den.
render_attrs_from_segment_weights(weights, nodes_attr) ==
    [c \in DOMAIN nodes_attr[0] |->
        SumSeq([i \in 1..Cardinality(DOMAIN nodes_attr) |->
                   weights.num[i - 1] * nodes_attr[i - 1][c]])]

shape_decoder(nodes, field, dimension_dict, cfg) ==
    LET D1 == sort(dimension_dict)
        valid_keys == keys_with(D1, <<"valid">>)
        hw_keys == keys_with(D1, cfg.hw_attr)
        N == Cardinality(DOMAIN nodes.vector)
        C == cfg.num_constraints
        shape_inputs == get_attr_dims(D1, nodes.vector, cfg.shape_dims[1], cfg.shape_dims[2], -1)
        skeys == keys_with(D1, cfg.shape_dims[1])
        si == py_index(Len(skeys), cfg.shape_key_pos)
    IN
    IF valid_keys = <<>> \/ hw_keys = <<>> THEN failure("IndexError", D1, {})
    ELSE IF shape_inputs.key = <<>> THEN failure("IndexError", D1, {})
    ELSE IF ~cfg.shape_mlp /\ si = 0 THEN failure("IndexError", D1, {})
    ELSE
    LET skey == skeys[si]
        sdims == getitem(D1, skey)
        codes_s == sdims.s + cfg.shape_dims[2][1]
        set1 == setitem(D1, <<"pred_shape_codes">>, codes_s, codes_s + 4 * C, "identity")
        set2 == setitem(set1.d, skey \o <<"_qsr", "_remainder">>, codes_s + 4 * C, sdims.e,
                        "identity")
        names == {<<"pred_shape_codes">>, skey \o <<"_qsr", "_remainder">>}
        D2 == IF cfg.shape_mlp THEN D1 ELSE set2.d
        attempted == IF cfg.shape_mlp THEN {} ELSE names
        width == IF cfg.shape_mlp THEN 4 * C ELSE cfg.shape_dims[2][2] - cfg.shape_dims[2][1]
        nodes_valid == [n \in 0..(N - 1) |->
                           get_tensor_from_attrs(D1, nodes.vector, valid_keys[Len(valid_keys)])[n][1]]
        nodes_hw == get_tensor_from_attrs(D1, nodes.vector, hw_keys[Len(hw_keys)])
        depths == get_attr_dims(D2, nodes.vector, cfg.depths_dims[1], cfg.depths_dims[2],
                                cfg.depths_key_pos)
        attrs == cfg.attribute_dims_to_decode
    IN
    IF ~cfg.shape_mlp /\ ~set1.ok THEN failure("LayoutConflict", D1, {<<"pred_shape_codes">>})
    ELSE IF ~cfg.shape_mlp /\ ~set2.ok THEN failure("LayoutConflict", set1.d, names)
    ELSE IF width < 4 * C THEN failure("AssertionError", D2, attempted)
    ELSE IF Len(nodes_hw[0]) # 2 THEN failure("AssertionError", D2, attempted)
    ELSE IF depths.key = <<>> THEN failure("IndexError", D2, attempted)
    ELSE IF missing_attrs(D2, nodes.vector, attrs) # {} THEN failure("IndexError", D2, attempted)
    ELSE
    LET shapes == [n \in 0..(N - 1) |-> field[n] * nodes_valid[n]]
        nodes_depths == [n \in 0..(N - 1) |-> depths.t[n][1]]
        logits0 == resolve_depth_order(shapes, nodes_depths, nodes_valid, cfg.valid_mask)
        shape_logits == IF cfg.zero_max
                        THEN [n \in 0..(N - 1) |-> logits0[n] - seq_max(logits0)]
                        ELSE logits0
        shape_probs == softmax([n \in 0..(N - 1) |-> shape_logits[n] * cfg.beta])
    IN
    [status |-> "ok",
     Dims |-> D2,
     attempted |-> attempted,
     out |-> [shapes |-> IF cfg.train THEN shape_probs ELSE argmax(shape_probs.num),
              shape_logits |-> IF cfg.train THEN shape_logits ELSE argmax(shape_logits),
              shapes_valid |-> seq_max(nodes_valid),
              decoded |-> [a \in DOMAIN attrs |->
                  render_attrs_from_segment_weights(
                      shape_probs,
                      get_attr_dims(D2, nodes.vector, attrs[a].attr, attrs[a].ds, -1).t)],
              \* the distribution the outputs are composited with
              shape_probs |-> shape_probs,
              nodes_valid |-> nodes_valid]]

(***************************************************************************)
(* Inputs of the heads: layouts, node records, segmentation maps.          *)
(***************************************************************************)
entry(k, s, e) == [key |-> k, s |-> s, e |-> e, f |-> "identity"]

unary_attrs == <<"unary_attr", "s">>

\* A layout of width 9 whose latent vector holds six coefficients.
LayoutWide ==
    [ndims |-> 9,
     items |-> << entry(unary_attrs, 0, 6), entry(<<"hw_centroids">>, 6, 8),
                  entry(<<"valid">>, 8, 9) >>]

\* Node rows for LayoutWide: six coefficients (tenths), the centroid (h, w) in
\* normalized units, the validity flag.
RowsWide ==
    << << 10, 10, 0, 0, 0, 0, -1, 0, 1 >>,
       << -20, 0, 10, 10, 0, 0, 1, 1, 1 >>,
       << -30, 10, 10, 0, 0, 10, 0, 0, 0 >> >>

\* Records of two nodes: each pair of consecutive rows.
NodesWide ==
    {[vector |-> [n \in 0..1 |-> RowsWide[((i + n) % Len(RowsWide)) + 1]]] : i \in 0..(Len(RowsWide) - 1)}

SegPatterns == {"all0", "columns", "rows", "stray"}

\* A segmentation map [0..H*W-1 -> id] over two nodes; "stray" holds an id that
\* names no node.
SegMap(pattern, H, W) ==
    [p \in 0..(H * W - 1) |->
        IF pattern = "all0" THEN 0
        ELSE IF pattern = "columns" THEN (IF 2 * (p % W) < W THEN 0 ELSE 1)
        ELSE IF pattern = "rows" THEN (IF 2 * (p \div W) < H THEN 0 ELSE 1)
        ELSE (IF p = 0 THEN 2 ELSE 1)]

Methods == {"constant", "linear", "quadratic"}

AttrConfigs == { << pred_depths_dims >>, << pred_depths_dims, pred_normals_dims >> }

spatial_cfg(n, train, attrs, method) ==
    [latent_vector_key |-> unary_attrs, key_pos |-> -1, hw_attr |-> <<"hw_centroids">>,
     num_sample_points |-> n, train |-> train,
     attribute_dims_to_decode |-> attrs, method |-> method]

\* A layout of width 9 that already holds predicted attributes.
LayoutPred ==
    [ndims |-> 9,
     items |-> << entry(<<"pred_flows">>, 0, 1), entry(<<"pred_back_flows">>, 1, 2),
                  entry(<<"pred_depths">>, 2, 3), entry(<<"pred_images">>, 3, 4),
                  entry(<<"pred_flood">>, 4, 5), entry(unary_attrs, 5, 6),
                  entry(<<"hw_centroids">>, 6, 8), entry(<<"valid">>, 8, 9) >>]

\* A layout of width 9 with a latent vector and no prediction yet.
LayoutMix ==
    [ndims |-> 9,
     items |-> << entry(unary_attrs, 0, 4), entry(<<"pred_flood">>, 4, 5),
                  entry(<<"pred_flows">>, 5, 6), entry(<<"hw_centroids">>, 6, 8),
                  entry(<<"valid">>, 8, 9) >>]

images_dims == [attr |-> <<"pred_images">>, ds |-> << 0, 1 >>, f |-> "identity"]

future_cfg(back_flows_dims, depths_dims) ==
    [flows_dims |-> << <<"pred_flows">>, << 0, 1 >> >>, key_pos |-> 0,
     back_flows_dims |-> back_flows_dims, depths_dims |-> depths_dims,
     attribute_dims_to_decode |-> << images_dims >>]

BackFlowsDims == { << >>, << <<"pred_back_flows">>, << 0, 1 >> >> }

DepthsDims == { << <<"pred_depths">>, << 0, 1 >> >>, << <<"pred_flood">>, << 0, 1 >> >> }

shape_cfg(shape_mlp, zero_max, valid_mask, beta, train) ==
    [num_constraints |-> 1, train |-> train,
     shape_dims |-> << <<"unary_attr">>, << 0, IF shape_mlp THEN 1 ELSE 4 >> >>,
     shape_key_pos |-> -1, shape_mlp |-> shape_mlp,
     depths_dims |-> << <<"pred_flood">>, << 0, 1 >> >>, depths_key_pos |-> -1,
     zero_max |-> zero_max, valid_mask |-> valid_mask, hw_attr |-> <<"hw_centroids">>,
     attribute_dims_to_decode |-> << images_dims >>, beta |-> beta]

NoCall == [head |-> "none"]

NoOut == [status |-> "none"]

(***************************************************************************)
(* The heads as operations on the shared layout.  call is the invocation:  *)
(* the head and the inputs it is called with; out is NoOut while the call  *)
(* is pending and what the head returned once it has run.                  *)
(***************************************************************************)
spatial_request(nodes, pattern, H, W, cfg, rnd) ==
    [head |-> "spatial", nodes |-> nodes, pattern |-> pattern,
     H |-> H, W |-> W, cfg |-> cfg, rnd |-> rnd]

RunSpatial ==
    /\ call.head = "spatial"
    /\ out = NoOut
    /\ LET r == spatial_attribute_decoder(call.nodes, SegMap(call.pattern, call.H, call.W),
                                          call.H, call.W, Dims, call.cfg, call.rnd)
       IN  /\ Dims' = r.Dims
           /\ out' = [status |-> r.status, attempted |-> r.attempted, out |-> r.out,
                      before |-> Dims]
    /\ UNCHANGED call

future_request(nodes, segment_ids, cfg) ==
    [head |-> "future", nodes |-> nodes, segment_ids |-> segment_ids, cfg |-> cfg]

RunFuture ==
    /\ call.head = "future"
    /\ out = NoOut
    /\ LET r == future_attribute_decoder(call.nodes, call.segment_ids, Dims, call.cfg)
       IN  /\ Dims' = r.Dims
           /\ out' = [status |-> r.status, attempted |-> r.attempted, out |-> r.out,
                      before |-> Dims, locals |-> r.locals]
    /\ UNCHANGED call

shape_request(nodes, field, cfg) ==
    [head |-> "shape", nodes |-> nodes, field |-> field, cfg |-> cfg]

RunShape ==
    /\ call.head = "shape"
    /\ out = NoOut
    /\ LET r == shape_decoder(call.nodes, call.field, Dims, call.cfg)
       IN  /\ Dims' = r.Dims
           /\ out' = [status |-> r.status, attempted |-> r.attempted, out |-> r.out,
                      before |-> Dims]
    /\ UNCHANGED call

(***************************************************************************)
(* SpecSample: one call of spatial_attribute_decoder on a fresh layout,    *)
(* over image sizes, sample budgets, node records, segmentation maps,      *)
(* methods and attribute sets.                                             *)
(***************************************************************************)
SampleRequests ==
    UNION { { spatial_request(nodes, pattern, H, W, spatial_cfg(n, train, attrs, method), rnd) :
                rnd \in (IF train THEN 0..(H * W - 1) ELSE {0}) } :
            H \in 2..MaxSide, W \in 2..MaxSide, n \in 1..MaxPts, nodes \in NodesWide,
            pattern \in SegPatterns, method \in Methods, attrs \in AttrConfigs,
            train \in BOOLEAN }

InitSample ==
    /\ Dims = LayoutWide
    /\ call \in SampleRequests
    /\ out = NoOut
    /\ prev = << NoCall, NoOut >>

NextSample == RunSpatial /\ UNCHANGED prev

SpecSample == InitSample /\ [][NextSample]_vars

(***************************************************************************)
(* Claims about spatial_attribute_decoder (SpecSample).                    *)
(***************************************************************************)
SpatialDone == call.head = "spatial" /\ out.status = "ok"

\* C8: the number of sampled pixel locations is min(num_sample_points, H*W): a
\* budget above H*W yields exactly H*W samples, a budget of at most H*W exactly
\* the requested number; every per-sample output has that many entries.
C8_SampleCount ==
    SpatialDone =>
        LET n == call.cfg.num_sample_points
            HW == call.H * call.W
            cnt == Len(out.out.sampled_hw_inds)
        IN  /\ n > HW => cnt = HW
            /\ n <= HW => cnt = n
            /\ Len(out.out.sampled_valid_attrs) = cnt
            /\ \A a \in DOMAIN out.out.sampled_pred_attrs :
                   Len(out.out.sampled_pred_attrs[a]) = cnt

C8_Witness ==
    /\ SpatialDone
    /\ call.cfg.num_sample_points > call.H * call.W
    /\ Len(out.out.sampled_hw_inds) = call.H * call.W

\* The bias coefficients (block 0) of attribute a of the node that owns sample i.
bias_of(a, i) ==
    LET x == getitem(out.out.predDims, call.cfg.attribute_dims_to_decode[a].attr)
        width == call.cfg.attribute_dims_to_decode[a].ndims
    IN  SubSeq(out.out.latent_vec[out.out.owner[i]], x.s + 1, x.s + width)

\* C9 as stated: with method='constant' the decoded value of every attribute at
\* every sampled pixel equals exactly the owning node's bias coefficient.
C9_Original ==
    (SpatialDone /\ call.cfg.method = "constant") =>
        \A a \in DOMAIN out.out.sampled_pred_attrs :
            \A i \in DOMAIN out.out.sampled_hw_inds :
                out.out.sampled_pred_attrs[a][i] =
                    [c \in DOMAIN bias_of(a, i) |-> bias_of(a, i)[c] * out.out.den]

\* C9 amended: with method='constant' the decoded value of every attribute at
\* every sampled pixel is the attribute's post-processing function applied to the
\* owning node's bias coefficient times the sample's validity, whatever the
\* pixel's offset from the node centroid.
C9_ConstantIsPostprocOfBias ==
    (SpatialDone /\ call.cfg.method = "constant") =>
        \A a \in DOMAIN out.out.sampled_pred_attrs :
            \A i \in DOMAIN out.out.sampled_hw_inds :
                out.out.sampled_pred_attrs[a][i] =
                    postproc(call.cfg.attribute_dims_to_decode[a].f,
                             [c \in DOMAIN bias_of(a, i) |->
                                 bias_of(a, i)[c] * out.out.sampled_valid_attrs[i] * out.out.den],
                             out.out.den)

C9_Witness ==
    /\ SpatialDone
    /\ call.cfg.method = "constant"
    /\ \E i, j \in DOMAIN out.out.sampled_hw_inds :
          /\ out.out.owner[i] = out.out.owner[j]
          /\ out.out.offsets[i] # out.out.offsets[j]
          /\ out.out.sampled_valid_attrs[i] = 1
          /\ out.out.sampled_valid_attrs[j] = 1
          /\ bias_of(1, i)[1] # 0
          /\ out.out.sampled_pred_attrs[1][i] = out.out.sampled_pred_attrs[1][j]

(***************************************************************************)
(* SpecFlow: one call of future_attribute_decoder over sequence lengths    *)
(* and node flows, with and without a backward flow.                       *)
(***************************************************************************)
\* Node rows for LayoutPred that differ in (pred_flows, pred_back_flows).
FlowRows ==
    { << 2, 2, -10, 5, -20, 0, 0, 0, 1 >>,
      << -4, 6, -10, 5, -20, 0, 0, 0, 1 >> }

\* Two pixels, the first owned by node 0 and the second by node 1, at every step.
FlowSeg(T) == [t \in 1..T |-> SegMap("columns", 1, 2)]

FlowRequests ==
    UNION { { future_request([vector |-> v], FlowSeg(T),
                             future_cfg(b, << <<"pred_depths">>, << 0, 1 >> >>)) :
                v \in [1..T -> [0..1 -> FlowRows]], b \in BackFlowsDims } :
            T \in 1..MaxT }

InitFlow ==
    /\ Dims = LayoutPred
    /\ call \in FlowRequests
    /\ out = NoOut
    /\ prev = << NoCall, NoOut >>

NextFlow == RunFuture /\ UNCHANGED prev

SpecFlow == InitFlow /\ [][NextFlow]_vars

FlowBuilt == call.head = "future" /\ out # NoOut /\ Len(out.locals.fwd_flows) > 0

\* C4 as stated: the combined field is the negated backward field alone at the
\* first time step, the forward field alone at the last time step and the average
\* of the forward and backward fields at every interior step 0 < t < T-1; without
\* a backward flow the backward field is the negation of the forward field.
C4_Original ==
    FlowBuilt =>
        LET fwd == out.locals.fwd_flows
            bck == out.locals.bck_flows
            flows == out.locals.flows
            T == Len(fwd)
        IN  /\ Len(flows) >= 1
            /\ flows[1] = scale_field(-2, bck[1])
            /\ flows[Len(flows)] = scale_field(2, fwd[T])
            /\ \A t \in 2..(T - 1) : flows[t] = sum_field(fwd[t], bck[t])
            /\ call.cfg.back_flows_dims = <<>> =>
                  \A t \in 1..T : bck[t] = scale_field(-1, fwd[t])

\* C4 amended: the first entry of the combined field is the negated backward field
\* of the first time step, its last entry is the forward field of the last time
\* step, and its entry at every interior step 0 < t < T-1 is half the forward
\* field minus the backward field (the average of the forward and the negated
\* backward field); without a backward flow the backward field is the negation
\* of the forward field.
C4_CombinedFlows ==
    FlowBuilt =>
        LET fwd == out.locals.fwd_flows
            bck == out.locals.bck_flows
            flows == out.locals.flows
            T == Len(fwd)
        IN  /\ Len(flows) >= 1
            /\ flows[1] = scale_field(-2, bck[1])
            /\ flows[Len(flows)] = scale_field(2, fwd[T])
            /\ \A t \in 2..(T - 1) : flows[t] = diff_field(fwd[t], bck[t])
            /\ call.cfg.back_flows_dims = <<>> =>
                  \A t \in 1..T : bck[t] = scale_field(-1, fwd[t])

C4_Witness ==
    /\ FlowBuilt
    /\ Len(out.locals.fwd_flows) >= 3
    /\ call.cfg.back_flows_dims # <<>>
    /\ out.locals.flows[2] = diff_field(out.locals.fwd_flows[2], out.locals.bck_flows[2])
    /\ out.locals.flows[2] # sum_field(out.locals.fwd_flows[2], out.locals.bck_flows[2])

\* C10: for every sequence length T >= 1 the combined flow field has exactly T time
\* steps, one per time step of the segmentation map it is propagated with.
C10_FlowLength ==
    FlowBuilt => Len(out.locals.flows) = Len(call.segment_ids)

(***************************************************************************)
(* SpecShape: one call of shape_decoder over node validity, depths,        *)
(* occupancy fields and depth-ordering options.                            *)
(***************************************************************************)
\* Node rows for LayoutPred that differ in (pred_images, pred_flood, valid).
ShapeRows ==
    { << 0, 0, -10, 5, -2, 0, 0, 0, 1 >>,
      << 0, 0, -10, -5, -1, 0, 0, 0, 1 >>,
      << 0, 0, -10, 5, -3, 0, 0, 0, 0 >>,
      << 0, 0, -10, 7, -1, 0, 0, 0, 0 >> }

ShapeRequests ==
    { shape_request([vector |-> v], field, shape_cfg(m, z, vm, beta, train)) :
        v \in [0..1 -> ShapeRows], field \in [0..1 -> {0, 1}], m \in BOOLEAN,
        z \in BOOLEAN, vm \in BOOLEAN, beta \in {1, 2}, train \in BOOLEAN }

InitShape ==
    /\ Dims = LayoutPred
    /\ call \in ShapeRequests
    /\ out = NoOut
    /\ prev = << NoCall, NoOut >>

NextShape == RunShape /\ UNCHANGED prev

SpecShape == InitShape /\ [][NextShape]_vars

ShapeDone == call.head = "shape" /\ out.status = "ok"

\* C5: shape_probs summed over the node axis equals 1 when at least one node is
\* valid, and shape_probs is the all-zero vector, with no contribution to the
\* composited attributes, when no node is valid.
C5_ShapeProbs ==
    ShapeDone =>
        LET probs == out.out.shape_probs
            some_valid == \E n \in DOMAIN out.out.nodes_valid : out.out.nodes_valid[n] # 0
        IN  /\ some_valid =>
                  /\ probs.den > 0
                  /\ SumSeq([i \in 1..Cardinality(DOMAIN probs.num) |-> probs.num[i - 1]]) = probs.den
            /\ ~some_valid =>
                  /\ \A n \in DOMAIN probs.num : probs.num[n] = 0
                  /\ \A a \in DOMAIN out.out.decoded :
                        \A c \in DOMAIN out.out.decoded[a] : out.out.decoded[a][c] = 0

(***************************************************************************)
(* SpecLayout: the three heads called in any order, with repeats, on one   *)
(* shared layout.  prev holds the call before the current one and what it  *)
(* returned.                                                               *)
(***************************************************************************)
LayoutNodes == [vector |-> (0 :> << 10, 10, 0, 0, -20, 2, -1, 0, 1 >>
                            @@ 1 :> << -20, 0, 10, 10, -10, -2, 1, 1, 1 >>)]

LayoutRequests ==
    { spatial_request(LayoutNodes, "columns", 2, 2,
                      [spatial_cfg(2, FALSE, attrs, method) EXCEPT !.key_pos = kp], 0) :
        attrs \in { << pred_depths_dims >>, << pred_normals_dims >> },
        method \in {"constant", "linear"}, kp \in {-1, 0} }
    \cup
    { future_request([vector |-> << LayoutNodes.vector, LayoutNodes.vector >>], FlowSeg(2),
                     future_cfg(b, d)) : b \in BackFlowsDims, d \in DepthsDims }
    \cup
    { shape_request(LayoutNodes, (0 :> 1 @@ 1 :> 1), shape_cfg(m, FALSE, TRUE, 1, train)) :
        m \in BOOLEAN, train \in BOOLEAN }

InitLayout ==
    /\ Dims \in {LayoutWide, LayoutPred, LayoutMix}
    /\ call = NoCall
    /\ out = NoOut
    /\ prev = << NoCall, NoOut >>

\* The caller makes the next call once the pending one has returned.
LayoutRequest ==
    /\ call = NoCall \/ out # NoOut
    /\ \E r \in LayoutRequests : call' = r
    /\ out' = NoOut
    /\ prev' = << call, out >>
    /\ UNCHANGED Dims

NextLayout ==
    \/ LayoutRequest
    \/ RunSpatial /\ UNCHANGED prev
    \/ RunFuture /\ UNCHANGED prev
    \/ RunShape /\ UNCHANGED prev

SpecLayout == InitLayout /\ [][NextLayout]_vars

C3_Idempotent ==
    (call.head # "none" /\ out # NoOut /\ prev[1] = call) =>
        /\ out.status = prev[2].status
        /\ out.out = prev[2].out

(***************************************************************************)
(* The Decoder wrapper.  A decoder is [name, input_signature, time_shared]; *)
(* inputs is the record of named tensors, a function from keys to tensors  *)
(* [id, B, T, merged]; input_mapping is a dictionary, a sequence of        *)
(* << logical name, key >> pairs in insertion order.  The head is given by *)
(* what it returns: a bare tensor, or a dictionary with a set of keys.     *)
(***************************************************************************)
mapping_keys(input_mapping) == {input_mapping[i][1] : i \in DOMAIN input_mapping}

mapping_get(input_mapping, nm) ==
    input_mapping[CHOOSE i \in DOMAIN input_mapping : input_mapping[i][1] = nm][2]

\* The inputs taken in the order of input_mapping, not of the signature.
build_inputs_in_mapping_order(input_signature, inputs, input_mapping) ==
    IF \E i \in DOMAIN input_signature : input_signature[i] \notin mapping_keys(input_mapping)
    THEN [status |-> "AssertionError", input_list |-> <<>>]
    ELSE IF \E i \in DOMAIN input_mapping : input_mapping[i][2] \notin DOMAIN inputs
    THEN [status |-> "KeyError", input_list |-> <<>>]
    ELSE [status |-> "ok",
          input_list |-> [i \in DOMAIN input_mapping |-> inputs[input_mapping[i][2]]]]

\* Decoder.build_inputs: fails unless every signature name is a key of
\* input_mapping and every mapped key is in inputs; else the inputs in signature
\* order.
build_inputs(input_signature, inputs, input_mapping) ==
    IF \E i \in DOMAIN input_signature : input_signature[i] \notin mapping_keys(input_mapping)
    THEN [status |-> "AssertionError", input_list |-> <<>>]
    ELSE IF \E i \in DOMAIN input_signature :
                mapping_get(input_mapping, input_signature[i]) \notin DOMAIN inputs
    THEN [status |-> "KeyError", input_list |-> <<>>]
    ELSE [status |-> "ok",
          input_list |-> [i \in DOMAIN input_signature |->
                             inputs[mapping_get(input_mapping, input_signature[i])]]]

\* Model.reshape_batch_time(x, merge=...): a head that is not time-aware gets its
\* tensors with batch and time merged into one leading axis, and its outputs get
\* the two axes back.
reshape_batch_time(x, merge, time_shared) ==
    IF time_shared THEN [x EXCEPT !.merged = merge] ELSE x

\* The outputs under the head's own keys, without the decoder name.
rename_outputs_no_prefix(name, outputs) ==
    {[key |-> o.key, val |-> o.val] : o \in outputs}

\* Decoder.rename_outputs: {self.name + '/' + k: outputs[k]}
rename_outputs(name, outputs) ==
    {[key |-> name \o <<"/">> \o o.key, val |-> o.val] : o \in outputs}

\* What the head returns: a dictionary of tensors shaped like its first argument,
\* or one such tensor.
head_tensor(k, args) == [id |-> k, B |-> args[1].B, T |-> args[1].T, merged |-> args[1].merged]

\* Decoder.__call__
decoder_call(decoder, inputs, input_mapping, head_returns) ==
    LET built == build_inputs(decoder.input_signature, inputs, input_mapping)
    IN
    IF built.status # "ok"
    THEN [status |-> built.status, head_invoked |-> FALSE, head_args |-> <<>>, outputs |-> {}]
    ELSE
    LET decoder_inputs == [i \in DOMAIN built.input_list |->
                              reshape_batch_time(built.input_list[i], TRUE, decoder.time_shared)]
        returned == IF head_returns.kind = "tensor"
                    THEN {[key |-> <<"outputs">>, val |-> head_tensor(<<"outputs">>, decoder_inputs)]}
                    ELSE {[key |-> k, val |-> head_tensor(k, decoder_inputs)] :
                             k \in head_returns.keys}
        restored == {[key |-> o.key, val |-> reshape_batch_time(o.val, FALSE, decoder.time_shared)] :
                        o \in returned}
    IN  [status |-> "ok", head_invoked |-> TRUE, head_args |-> decoder_inputs,
         outputs |-> rename_outputs(decoder.name, restored)]

decoder_request(decoder, inputs, input_mapping, head_returns) ==
    [head |-> "decoder", decoder |-> decoder, inputs |-> inputs,
     input_mapping |-> input_mapping, head_returns |-> head_returns]

RunDecoder ==
    /\ call.head = "decoder"
    /\ out = NoOut
    /\ LET r == decoder_call(call.decoder, call.inputs, call.input_mapping, call.head_returns)
       IN  out' = [status |-> r.status, head_invoked |-> r.head_invoked,
                   head_args |-> r.head_args, outputs |-> r.outputs]
    /\ UNCHANGED << Dims, call >>

(***************************************************************************)
(* SpecWrap: decoders called one after the other over the same inputs.     *)
(***************************************************************************)
Chars == {"a", "/"}

\* Decoder names: they start with a letter.
Names == UNION {{s \in [1..n -> Chars] : s[1] = "a"} : n \in 1..MaxNameLen}

dict_of(ks) == [kind |-> "dict", keys |-> ks]

HeadReturns ==
    { [kind |-> "tensor", keys |-> {}], dict_of({<<"k">>}), dict_of({<<"a", "/", "k">>}),
      dict_of({<<"k">>, <<"/", "k">>}), dict_of({<<"outputs">>, <<"k">>}) }

WrapInputs ==
    ("nodes_key" :> [id |-> <<"n">>, B |-> 2, T |-> 3, merged |-> FALSE]
     @@ "segments_key" :> [id |-> <<"s">>, B |-> 2, T |-> 3, merged |-> FALSE])

Signatures == { << "nodes", "segment_ids" >>, << "segment_ids", "nodes" >>, << "nodes" >> }

Mappings ==
    { << << "nodes", "nodes_key" >>, << "segment_ids", "segments_key" >> >>,
      << << "segment_ids", "segments_key" >>, << "nodes", "nodes_key" >> >>,
      << << "segment_ids", "nodes_key" >>, << "nodes", "segments_key" >> >>,
      << << "nodes", "nodes_key" >> >>,
      << << "nodes", "absent_key" >>, << "segment_ids", "segments_key" >> >> }

WrapRequests ==
    { decoder_request([name |-> nm, input_signature |-> << "nodes", "segment_ids" >>,
                       time_shared |-> FALSE],
                      WrapInputs, << << "nodes", "nodes_key" >>, << "segment_ids", "segments_key" >> >>,
                      h) : nm \in Names, h \in HeadReturns }
    \cup
    { decoder_request([name |-> <<"a">>, input_signature |-> sig, time_shared |-> ts],
                      WrapInputs, m, dict_of({<<"k">>})) :
        sig \in Signatures, m \in Mappings, ts \in BOOLEAN }

InitWrap ==
    /\ Dims = LayoutWide
    /\ call \in WrapRequests
    /\ out = NoOut
    /\ prev = << NoCall, NoOut >>

\* The caller runs the next decoder once the pending one has returned.
WrapRequest ==
    /\ out # NoOut
    /\ \E r \in WrapRequests : call' = r
    /\ out' = NoOut
    /\ prev' = << call, out >>
    /\ UNCHANGED Dims

NextWrap ==
    \/ WrapRequest
    \/ RunDecoder /\ UNCHANGED prev

SpecWrap == InitWrap /\ [][NextWrap]_vars

DecoderDone == call.head = "decoder" /\ out # NoOut

head_keys(c) == IF c.head_returns.kind = "tensor" THEN {<<"outputs">>} ELSE c.head_returns.keys

returned_keys(o) == {x.key : x \in o.outputs}

has_prefix(s, p) == Len(p) <= Len(s) /\ SubSeq(s, 1, Len(p)) = p

TwoDecoders ==
    /\ DecoderDone /\ out.status = "ok"
    /\ prev[1].head = "decoder" /\ prev[2].status = "ok"
    /\ prev[1].decoder.name # call.decoder.name

\* C7 as stated: every returned key is '<decoder name>/<key>' for a key of the head
\* ('outputs' for a bare tensor), head keys map to returned keys one-to-one, and
\* two decoders with different names never return a common key.
C7_Original ==
    /\ (DecoderDone /\ out.status = "ok") =>
          /\ returned_keys(out) = {call.decoder.name \o <<"/">> \o k : k \in head_keys(call)}
          /\ Cardinality(returned_keys(out)) = Cardinality(head_keys(call))
    /\ TwoDecoders => returned_keys(out) \cap returned_keys(prev[2]) = {}

\* C7 amended: every returned key is '<decoder name>/<key>' for a key of the head
\* ('outputs' for a bare tensor), head keys map to returned keys one-to-one, and
\* two decoders with different names never return a common key provided neither
\* name followed by '/' is a prefix of the other name.
C7_Namespacing ==
    /\ (DecoderDone /\ out.status = "ok") =>
          /\ returned_keys(out) = {call.decoder.name \o <<"/">> \o k : k \in head_keys(call)}
          /\ Cardinality(returned_keys(out)) = Cardinality(head_keys(call))
    /\ (/\ TwoDecoders
        /\ ~has_prefix(call.decoder.name, prev[1].decoder.name \o <<"/">>)
        /\ ~has_prefix(prev[1].decoder.name, call.decoder.name \o <<"/">>))
          => returned_keys(out) \cap returned_keys(prev[2]) = {}

C7_Witness ==
    /\ TwoDecoders
    /\ has_prefix(call.decoder.name, prev[1].decoder.name)
    /\ Cardinality(returned_keys(out)) = 2
    /\ Cardinality(returned_keys(prev[2])) = 2
    /\ head_keys(call) = head_keys(prev[1])
    /\ returned_keys(out) \cap returned_keys(prev[2]) = {}

====
